---- MODULE Spec2Model ----
(***************************************************************************)
(* A model of pers.cpp: a daemon that keeps an in-memory key/value store   *)
(* and answers STATUS / GET / SET / SHUTDOWN requests that clients send    *)
(* over two named pipes, with a PID file as the liveness marker.           *)
(*                                                                         *)
(* Byte strings are sequences of one-character strings, so that parsing,   *)
(* trimming and formatting are computed the way the code computes them.    *)
(***************************************************************************)
EXTENDS Integers, Sequences, FiniteSets, TLC

(***************************************************************************)
(* Bounds of the model.                                                    *)
(***************************************************************************)
\* Longest text that follows "SET " in a generated line (the text that
\* follows "GET " is at most two characters shorter: a key of such a line).
MaxArgLen == 4
\* Lines one client process enters at its prompt before it must leave, in
\* the specification of the whole system.
MaxCommands == 1
\* Serial transactions of all clients together, in the specification of
\* clients taking turns.
MaxSerial == 3
\* Serial transactions of the one client of the specification of generated
\* lines.
MaxParse == 2
\* Ticks of the steady clock that the model lets pass.
MaxClock == 2

\* The characters generated argument texts are made of.
ArgChars == {"a", " "}

(***************************************************************************)
(* Program constants.                                                      *)
(***************************************************************************)
\* char buffer[1024] in daemon_main and in send_request.
BufferSize == 1024
\* Steady-clock ticks per second: duration_cast<seconds> truncates to whole
\* seconds, modelled with a clock that ticks twice a second.
TicksPerSecond == 2

\* The byte that ends a C string.
NUL == "\\0"

(***************************************************************************)
(* String literals of the program.                                         *)
(***************************************************************************)
STATUS == <<"S","T","A","T","U","S">>
SHUTDOWN == <<"S","H","U","T","D","O","W","N">>
SET_ == <<"S","E","T"," ">>
GET_ == <<"G","E","T"," ">>
KEY_version == <<"v","e","r","s","i","o","n">>
VAL_version == <<"1",".","0">>
KEY_status == <<"s","t","a","t","u","s">>
VAL_status == <<"r","u","n","n","i","n","g">>
OK_SET == <<"O","K",":"," ","S","e","t"," ">>
EQ_ == <<" ","="," ">>
VALUE_ == <<"V","A","L","U","E",":"," ">>
ERR_INVALID_SET == <<"E","R","R","O","R",":"," ","I","n","v","a","l","i","d",
                     " ","S","E","T"," ","c","o","m","m","a","n","d">>
ERR_NOT_FOUND == <<"E","R","R","O","R",":"," ","K","e","y"," ",
                   "n","o","t"," ","f","o","u","n","d">>
ERR_UNKNOWN ==
    <<"E","R","R","O","R",":"," ","U","n","k","n","o","w","n"," ","c","o",
      "m","m","a","n","d","."," ","U","s","e"," ","S","T","A","T","U",
      "S",","," ","G","E","T"," ","<","k","e","y",">",","," ","S","E",
      "T"," ","<","k","e","y",">"," ","<","v","a","l","u","e",">",",",
      " ","o","r"," ","S","H","U","T","D","O","W","N">>
SHUTTING_DOWN == <<"S","h","u","t","t","i","n","g"," ","d","o","w","n",
                   ".",".",".">>
ERR_CONNECT ==
    <<"E","R","R","O","R",":"," ","C","a","n","n","o","t"," ","c","o","n",
      "n","e","c","t"," ","t","o"," ","d","a","e","m","o","n">>
ERR_READ ==
    <<"E","R","R","O","R",":"," ","C","a","n","n","o","t"," ","r","e","a",
      "d"," ","r","e","s","p","o","n","s","e">>
ERR_NO_RESPONSE == <<"E","R","R","O","R",":"," ","N","o"," ",
                     "r","e","s","p","o","n","s","e">>
ST_RUNNING == <<"S","t","a","t","u","s",":"," ","R","u","n","n","i","n","g","\n">>
ST_QUERIES == <<"Q","u","e","r","i","e","s",":"," ">>
ST_UPTIME == <<"U","p","t","i","m","e",":"," ">>
ST_SECONDS == <<" ","s","e","c","o","n","d","s","\n">>
ST_ENTRIES == <<"S","t","a","t","e"," ","e","n","t","r","i","e","s",":"," ">>
NL == <<"\n">>

(***************************************************************************)
(* std::string operations.                                                 *)
(***************************************************************************)
\* s.substr(pos) for pos <= size (pos is 0-based as in C++).
substr(s, pos) == SubSeq(s, pos + 1, Len(s))

\* s.substr(0, n): at most the first n characters.
prefix(s, n) == SubSeq(s, 1, IF Len(s) < n THEN Len(s) ELSE n)

\* std::to_string of a non-negative integer: its decimal digits.
Digits == <<"0","1","2","3","4","5","6","7","8","9">>
RECURSIVE to_string(_)
to_string(n) ==
    IF n < 10 THEN <<Digits[n + 1]>>
    ELSE to_string(n \div 10) \o <<Digits[(n % 10) + 1]>>

\* std::string(const char*): the bytes before the first NUL.
c_string(bytes) ==
    IF \E i \in 1..Len(bytes) : bytes[i] = NUL
    THEN SubSeq(bytes, 1, (CHOOSE i \in 1..Len(bytes) :
                              /\ bytes[i] = NUL
                              /\ \A j \in 1..(i - 1) : bytes[j] # NUL) - 1)
    ELSE bytes

\* The characters operator>> skips and stops at (std::isspace in the C locale;
\* the vertical tab is left out, TLA+ strings cannot write it).
IsSpace(ch) == ch \in {" ", "\t", "\n", "\r", "\f"}

\* The characters the GET branch trims from the end of the key.
TrimChars == {" ", "\n", "\r", "\t"}

\* key.erase(key.find_last_not_of(" \n\r\t") + 1): drop the trailing run of
\* trim characters (everything, when no other character is present).
TrimRight(s) ==
    LET keep == {i \in 1..Len(s) : s[i] \notin TrimChars}
        last == IF keep = {} THEN 0
                ELSE CHOOSE i \in keep : \A j \in keep : j <= i
    IN  SubSeq(s, 1, last)

\* iss >> key: skip leading white space, then take characters up to the next
\* white space or the end. ok is the stream state after the extraction (false
\* when no character was taken), eof whether the end of the text was reached.
ExtractKey(s) ==
    LET ns == {i \in 1..Len(s) : ~IsSpace(s[i])}
        first == IF ns = {} THEN Len(s) + 1
                 ELSE CHOOSE i \in ns : \A j \in ns : i <= j
        sp == {i \in first..Len(s) : IsSpace(s[i])}
        stop == IF sp = {} THEN Len(s) + 1
                ELSE CHOOSE i \in sp : \A j \in sp : i <= j
    IN  [ok |-> ns # {},
         key |-> SubSeq(s, first, stop - 1),
         eof |-> stop = Len(s) + 1,
         rest |-> SubSeq(s, stop, Len(s))]

\* std::getline(iss, value) on what is left of the stream: fails when the
\* stream is already at its end, else takes the characters up to the first
\* line feed (which it consumes) or the end.
GetLine(rest, eof) ==
    LET nl == {i \in 1..Len(rest) : rest[i] = "\n"}
        stop == IF nl = {} THEN Len(rest) + 1
                ELSE CHOOSE i \in nl : \A j \in nl : i <= j
    IN  [ok |-> ~eof /\ Len(rest) > 0,
         value |-> SubSeq(rest, 1, stop - 1)]

(***************************************************************************)
(* The state store: std::unordered_map<std::string, std::string>.          *)
(***************************************************************************)
\* A faulty variant of SeedState, which brings back an entry of an earlier
\* daemon.
SeedStateRestored ==
    (KEY_version :> VAL_version) @@ (KEY_status :> VAL_status)
        @@ (<<"a">> :> <<"1">>)

\* state["version"] = "1.0"; state["status"] = "running";
SeedState == (KEY_version :> VAL_version) @@ (KEY_status :> VAL_status)

\* A faulty variant of StoreSet, which keeps the value a key already has
\* (what state.emplace(key, value) would do).
StoreSetIfAbsent(st, key, value) ==
    IF key \in DOMAIN st THEN st ELSE (key :> value) @@ st

\* state[key] = value: insert or overwrite.
StoreSet(st, key, value) == (key :> value) @@ st

\* state.size()
StoreSize(st) == Cardinality(DOMAIN st)

(***************************************************************************)
(* The command processor: the body of daemon_main's loop between the read  *)
(* of a request and the sending of its response.                           *)
(***************************************************************************)
\* What one request does: the response, the store and the counter after it,
\* whether the loop is left (SHUTDOWN), and whether an exception nobody
\* catches ends the process.
Outcome(resp, st, qc, stopFlag, crashFlag) ==
    [response |-> resp, state |-> st, query_count |-> qc,
     stop |-> stopFlag, crash |-> crashFlag]

\* duration_cast<seconds>(now - start_time).count()
UptimeSeconds(start, clock) == (clock - start) \div TicksPerSecond

\* A faulty variant of NextQueryCount, which does not count the query.
SameQueryCount(qc) == qc

\* ++query_count
NextQueryCount(qc) == qc + 1

\* request == "STATUS"
StatusCommand(st, qc, seconds) ==
    Outcome(ST_RUNNING \o ST_QUERIES \o to_string(NextQueryCount(qc)) \o NL
              \o ST_UPTIME \o to_string(seconds) \o ST_SECONDS
              \o ST_ENTRIES \o to_string(StoreSize(st)) \o NL,
            st, NextQueryCount(qc), FALSE, FALSE)

\* A faulty variant of StripSeparator, which drops every leading white-space
\* character instead of exactly one character.
RECURSIVE StripLeadingSpace(_)
StripLeadingSpace(value) ==
    IF Len(value) > 0 /\ IsSpace(value[1])
    THEN StripLeadingSpace(substr(value, 1))
    ELSE value

\* value = value.substr(1): "Remove leading space". Called with a non-empty
\* value only; on an empty one substr throws std::out_of_range.
StripSeparator(value) == substr(value, 1)

\* A faulty variant of SetParses, which does not look at getline's result.
SetParsesKeyOnly(k, g) == k.ok

\* if (iss >> key && std::getline(iss, value))
SetParses(k, g) == k.ok /\ g.ok

\* request.substr(0, 4) == "SET "; arg is request.substr(4).
SetCommand(st, qc, arg) ==
    LET k == ExtractKey(arg)
        g == GetLine(k.rest, k.eof)
    IN  IF SetParses(k, g)
        THEN IF Len(g.value) < 1
             THEN Outcome(<<>>, st, qc, FALSE, TRUE)
             ELSE Outcome(OK_SET \o k.key \o EQ_ \o StripSeparator(g.value),
                          StoreSet(st, k.key, StripSeparator(g.value)),
                          qc, FALSE, FALSE)
        ELSE Outcome(ERR_INVALID_SET, st, qc, FALSE, FALSE)

\* A faulty variant of StoreFind, which looks the key up with state[key] and
\* so inserts an empty value for a key that is not there.
StoreFindOrInsert(st, key) ==
    [found |-> TRUE,
     value |-> IF key \in DOMAIN st THEN st[key] ELSE <<>>,
     state |-> IF key \in DOMAIN st THEN st ELSE (key :> <<>>) @@ st]

\* auto it = state.find(key): a lookup, which leaves the store as it is.
StoreFind(st, key) ==
    [found |-> key \in DOMAIN st,
     value |-> IF key \in DOMAIN st THEN st[key] ELSE <<>>,
     state |-> st]

\* request.substr(0, 4) == "GET "; arg is request.substr(4).
GetCommand(st, qc, arg) ==
    LET it == StoreFind(st, TrimRight(arg))
    IN  IF it.found
        THEN Outcome(VALUE_ \o it.value, it.state, qc, FALSE, FALSE)
        ELSE Outcome(ERR_NOT_FOUND, it.state, qc, FALSE, FALSE)

\* The if / else-if chain of daemon_main, in its order.
ProcessRequest(request, st, qc, seconds) ==
    IF request = STATUS THEN StatusCommand(st, qc, seconds)
    ELSE IF prefix(request, 4) = SET_ THEN SetCommand(st, qc, substr(request, 4))
    ELSE IF prefix(request, 4) = GET_ THEN GetCommand(st, qc, substr(request, 4))
    ELSE IF request = SHUTDOWN THEN Outcome(SHUTTING_DOWN, st, qc, TRUE, FALSE)
    ELSE Outcome(ERR_UNKNOWN, st, qc, FALSE, FALSE)

\* read(fd, buffer, sizeof(buffer) - 1): at most 1023 bytes of what is there.
ReadBytes(buf) == prefix(buf, BufferSize - 1)
\* What read() leaves in the pipe.
ReadRest(buf) == substr(buf, Len(ReadBytes(buf)))

(***************************************************************************)
(* Processes, files and pipes.                                             *)
(***************************************************************************)
\* The client processes (runs of main without --daemon).
Clients == {"c1", "c2"}

\* The daemon processes, named by their process identifiers. A client run
\* forks at most one daemon, so there are as many as there are clients.
Daemons == {1, 2}

\* The daemon process that client c's fork + execl creates.
DaemonOf(c) == IF c = "c1" THEN 1 ELSE 2

\* The lines clients type at the prompt.
SET_a_1 == <<"S","E","T"," ","a"," ","1">>
SET_a_2 == <<"S","E","T"," ","a"," ","2">>
GET_a == <<"G","E","T"," ","a">>
\* A SET whose key is followed by a line feed and nothing else, and a line
\* that is no command.
SET_a_NL == <<"S","E","T"," ","a","\n">>
HELP == <<"H","E","L","P">>
\* ... in the specification of the whole system,
CmdLines == {SET_a_1, GET_a, SHUTDOWN}
\* ... and in the specification of serial transactions.
SerialLines == {STATUS, SET_a_1, SET_a_2, GET_a, SET_a_NL, SHUTDOWN}

\* Inodes are named by the daemon that created them; 0 is "no such file" for
\* a path and "no descriptor" for a process.
NoFile == 0

\* The content of a PID file nothing has been written to yet (process
\* identifiers are positive).
EmptyFile == 0

VARIABLES
    cpc,          \* client: where it is in main / send_request
    line,         \* client: the line it entered (send_request's request)
    result,       \* client: what its latest send_request returned
    ncmd,         \* client: lines entered so far
    cfd,          \* client: the pipe inode its open descriptor refers to
    dpc,          \* daemon: where it is in daemonize / daemon_main
    dfd,          \* daemon: the inode its open descriptor refers to
    request,      \* daemon: the bytes its latest read returned
    response,     \* daemon: the response it computed
    stopping,     \* daemon: the SHUTDOWN branch was taken
    state,        \* daemon: the store
    query_count,  \* daemon: the STATUS counter
    start_time,   \* daemon: steady-clock reading at initialisation
    now,          \* the steady clock
    pidPath,      \* PID_FILE: the inode the path names
    pidData,      \* content of each PID-file inode: EmptyFile or a pid
    reqPath,      \* FIFO_REQUEST: the inode the path names
    respPath,     \* FIFO_RESPONSE: the inode the path names
    reqBuf,       \* bytes held by each request FIFO inode
    respBuf,      \* bytes held by each response FIFO inode
    last,         \* history: the latest serial transaction
    prevReq,      \* history: the request of the serial transaction before it
    prevStatus,   \* history: the STATUS transaction before the latest one
    lastStatus,   \* history: the latest STATUS transaction
    lastSet       \* history: the latest SET transaction on key "a"

cvars == <<cpc, line, result, ncmd, cfd>>
dvars == <<dpc, dfd, request, response, stopping, state, query_count, start_time>>
fsvars == <<pidPath, pidData, reqPath, respPath, reqBuf, respBuf>>
hvars == <<last, prevReq, prevStatus, lastStatus, lastSet>>
vars == <<cvars, dvars, fsvars, hvars, now>>

None == [none |-> TRUE]

Init ==
    /\ cpc = [c \in Clients |-> "init"]
    /\ line = [c \in Clients |-> <<>>]
    /\ result = [c \in Clients |-> <<>>]
    /\ ncmd = [c \in Clients |-> 0]
    /\ cfd = [c \in Clients |-> NoFile]
    /\ dpc = [d \in Daemons |-> "none"]
    /\ dfd = [d \in Daemons |-> NoFile]
    /\ request = [d \in Daemons |-> <<>>]
    /\ response = [d \in Daemons |-> <<>>]
    /\ stopping = [d \in Daemons |-> FALSE]
    /\ state = [d \in Daemons |-> <<>>]
    /\ query_count = [d \in Daemons |-> 0]
    /\ start_time = [d \in Daemons |-> 0]
    /\ now = 0
    /\ pidPath = NoFile
    /\ pidData = [i \in Daemons |-> EmptyFile]
    /\ reqPath = NoFile
    /\ respPath = NoFile
    /\ reqBuf = [i \in Daemons |-> <<>>]
    /\ respBuf = [i \in Daemons |-> <<>>]
    /\ last = None
    /\ prevReq = <<>>
    /\ prevStatus = None
    /\ lastStatus = None
    /\ lastSet = None

(***************************************************************************)
(* Named pipes. A process counts as a reader or writer of a FIFO from the  *)
(* moment its open() registers it, also while that open() still waits for  *)
(* the other side; open() returns once the other side has opened since.    *)
(***************************************************************************)
ReqReaders(i) ==
    {d \in Daemons : dfd[d] = i /\ dpc[d] \in {"wait_req", "read_req", "close_req"}}
ReqWriters(i) ==
    {c \in Clients : cfd[c] = i /\ cpc[c] \in {"wait_req", "write_req", "close_req"}}
RespWriters(i) ==
    {d \in Daemons : dfd[d] = i /\ dpc[d] \in {"wait_resp", "write_resp", "close_resp"}}
RespReaders(i) ==
    {c \in Clients : cfd[c] = i /\ cpc[c] \in {"wait_resp", "read_resp", "close_resp"}}

\* A process exists: kill(pid, 0) == 0.
ProcessExists(d) == dpc[d] \notin {"none", "exited", "killed", "aborted"}

(***************************************************************************)
(* is_daemon_running(): the values it can return in the current state.     *)
(* With an empty PID file the extraction fails before anything is stored   *)
(* in pid, so kill() is called on an uninitialised value: either result.   *)
(***************************************************************************)
is_daemon_running ==
    IF pidPath = NoFile THEN {FALSE}
    ELSE IF pidData[pidPath] = EmptyFile THEN BOOLEAN
    ELSE {ProcessExists(pidData[pidPath])}

(***************************************************************************)
(* daemonize() and daemon_main(), one action per system call.              *)
(***************************************************************************)
\* std::ofstream pid_file(PID_FILE): create the file, or truncate the one
\* that is there.
DaemonOpenPidFile(d) ==
    /\ dpc[d] = "daemonize"
    /\ LET i == IF pidPath = NoFile THEN d ELSE pidPath
       IN  /\ pidPath' = i
           /\ pidData' = [pidData EXCEPT ![i] = EmptyFile]
           /\ dfd' = [dfd EXCEPT ![d] = i]
    /\ dpc' = [dpc EXCEPT ![d] = "write_pid"]
    /\ UNCHANGED <<cvars, request, response, stopping, state, query_count,
                   start_time, reqPath, respPath, reqBuf, respBuf, hvars, now>>

\* pid_file << getpid(); pid_file.close(): the text reaches the file when the
\* stream is closed.
DaemonWritePid(d) ==
    /\ dpc[d] = "write_pid"
    /\ pidData' = [pidData EXCEPT ![dfd[d]] = d]
    /\ dfd' = [dfd EXCEPT ![d] = NoFile]
    /\ dpc' = [dpc EXCEPT ![d] = "unlink"]
    /\ UNCHANGED <<cvars, request, response, stopping, state, query_count,
                   start_time, pidPath, reqPath, respPath, reqBuf, respBuf,
                   hvars, now>>

\* unlink(FIFO_REQUEST); unlink(FIFO_RESPONSE)
DaemonUnlinkFifos(d) ==
    /\ dpc[d] = "unlink"
    /\ reqPath' = NoFile
    /\ respPath' = NoFile
    /\ dpc' = [dpc EXCEPT ![d] = "mkfifo"]
    /\ UNCHANGED <<cvars, dfd, request, response, stopping, state, query_count,
                   start_time, pidPath, pidData, reqBuf, respBuf, hvars, now>>

\* mkfifo(FIFO_REQUEST, 0666); mkfifo(FIFO_RESPONSE, 0666): a new FIFO each,
\* unless the path exists (EEXIST, which the code does not look at). Then the
\* initialisation of the store, the counter and the start time.
DaemonMkfifos(d) ==
    /\ dpc[d] = "mkfifo"
    /\ IF reqPath = NoFile
       THEN reqPath' = d /\ reqBuf' = [reqBuf EXCEPT ![d] = <<>>]
       ELSE UNCHANGED <<reqPath, reqBuf>>
    /\ IF respPath = NoFile
       THEN respPath' = d /\ respBuf' = [respBuf EXCEPT ![d] = <<>>]
       ELSE UNCHANGED <<respPath, respBuf>>
    /\ state' = [state EXCEPT ![d] = SeedState]
    /\ query_count' = [query_count EXCEPT ![d] = 0]
    /\ start_time' = [start_time EXCEPT ![d] = now]
    /\ dpc' = [dpc EXCEPT ![d] = "open_req"]
    /\ UNCHANGED <<cvars, dfd, request, response, stopping, pidPath, pidData,
                   hvars, now>>

\* open(FIFO_REQUEST, O_RDONLY). While the path does not exist the open fails
\* and the loop tries again, which changes nothing. Otherwise the daemon is
\* registered as a reader, the writers waiting in their open are released,
\* and the daemon's own open returns once a writer has opened.
DaemonOpenReq(d) ==
    /\ dpc[d] = "open_req"
    /\ reqPath # NoFile
    /\ dfd' = [dfd EXCEPT ![d] = reqPath]
    /\ dpc' = [dpc EXCEPT ![d] = IF ReqWriters(reqPath) # {} THEN "read_req"
                                 ELSE "wait_req"]
    /\ cpc' = [c \in Clients |->
                 IF cpc[c] = "wait_req" /\ cfd[c] = reqPath THEN "write_req"
                 ELSE cpc[c]]
    /\ UNCHANGED <<line, result, ncmd, cfd, request, response, stopping, state,
                   query_count, start_time, fsvars, hvars, now>>

\* read(req_fd, buffer, sizeof(buffer) - 1): waits while the pipe is empty and
\* a writer has it open; returns 0 at end of file.
DaemonReadReq(d) ==
    /\ dpc[d] = "read_req"
    /\ reqBuf[dfd[d]] # <<>> \/ ReqWriters(dfd[d]) = {}
    /\ request' = [request EXCEPT ![d] = ReadBytes(reqBuf[dfd[d]])]
    /\ reqBuf' = [reqBuf EXCEPT ![dfd[d]] = ReadRest(reqBuf[dfd[d]])]
    /\ dpc' = [dpc EXCEPT ![d] = "close_req"]
    /\ UNCHANGED <<cvars, dfd, response, stopping, state, query_count,
                   start_time, pidPath, pidData, reqPath, respPath, respBuf,
                   hvars, now>>

\* A faulty variant of NothingRead, which takes a read of zero bytes for a
\* request.
NothingReadOnError(bytes) == Len(bytes) < 0

\* bytes <= 0: the read returned no byte.
NothingRead(bytes) == Len(bytes) <= 0

\* close(req_fd); if (bytes <= 0) continue. The pipe's bytes are gone when
\* its last descriptor is closed.
DaemonCloseReq(d) ==
    /\ dpc[d] = "close_req"
    /\ dfd' = [dfd EXCEPT ![d] = NoFile]
    /\ reqBuf' = [reqBuf EXCEPT ![dfd[d]] =
                    IF ReqReaders(dfd[d]) = {d} /\ ReqWriters(dfd[d]) = {}
                    THEN <<>> ELSE @]
    /\ dpc' = [dpc EXCEPT ![d] = IF NothingRead(request[d]) THEN "open_req"
                                 ELSE "process"]
    /\ UNCHANGED <<cvars, request, response, stopping, state, query_count,
                   start_time, pidPath, pidData, reqPath, respPath, respBuf,
                   hvars, now>>

\* std::string request(buffer) and the command chain. An exception thrown
\* while processing is caught nowhere: the process is aborted.
DaemonProcess(d) ==
    /\ dpc[d] = "process"
    /\ LET out == ProcessRequest(c_string(request[d]), state[d], query_count[d],
                                 UptimeSeconds(start_time[d], now))
       IN  /\ response' = [response EXCEPT ![d] = out.response]
           /\ state' = [state EXCEPT ![d] = out.state]
           /\ query_count' = [query_count EXCEPT ![d] = out.query_count]
           /\ stopping' = [stopping EXCEPT ![d] = out.stop]
           /\ dpc' = [dpc EXCEPT ![d] = IF out.crash THEN "aborted"
                                        ELSE "open_resp"]
    /\ UNCHANGED <<cvars, dfd, request, start_time, fsvars, hvars, now>>

\* Where the daemon goes after the response was sent or dropped: around the
\* loop, or (after SHUTDOWN's break) to the cleanup.
AfterResponse(d) == IF stopping[d] THEN "cleanup" ELSE "open_req"

\* open(FIFO_RESPONSE, O_WRONLY): fails when the path does not exist (the
\* response is dropped); else registers the daemon as a writer, releases the
\* readers waiting in their open, and returns once a reader has opened.
DaemonOpenResp(d) ==
    /\ dpc[d] = "open_resp"
    /\ IF respPath = NoFile
       THEN /\ dpc' = [dpc EXCEPT ![d] = AfterResponse(d)]
            /\ request' = [request EXCEPT ![d] = <<>>]
            /\ response' = [response EXCEPT ![d] = <<>>]
            /\ UNCHANGED <<dfd, cpc>>
       ELSE /\ dfd' = [dfd EXCEPT ![d] = respPath]
            /\ dpc' = [dpc EXCEPT ![d] =
                         IF RespReaders(respPath) # {} THEN "write_resp"
                         ELSE "wait_resp"]
            /\ cpc' = [c \in Clients |->
                         IF cpc[c] = "wait_resp" /\ cfd[c] = respPath
                         THEN "read_resp" ELSE cpc[c]]
            /\ UNCHANGED <<request, response>>
    /\ UNCHANGED <<line, result, ncmd, cfd, stopping, state,
                   query_count, start_time, fsvars, hvars, now>>

\* write(resp_fd, response.c_str(), response.length()): with no reader left
\* the write raises SIGPIPE, which ends the process.
DaemonWriteResp(d) ==
    /\ dpc[d] = "write_resp"
    /\ IF RespReaders(dfd[d]) = {}
       THEN /\ dpc' = [dpc EXCEPT ![d] = "killed"]
            /\ dfd' = [dfd EXCEPT ![d] = NoFile]
            /\ respBuf' = [respBuf EXCEPT ![dfd[d]] =
                             IF RespWriters(dfd[d]) = {d} THEN <<>> ELSE @]
       ELSE /\ dpc' = [dpc EXCEPT ![d] = "close_resp"]
            /\ respBuf' = [respBuf EXCEPT ![dfd[d]] = @ \o response[d]]
            /\ UNCHANGED dfd
    /\ UNCHANGED <<cvars, request, response, stopping, state, query_count,
                   start_time, pidPath, pidData, reqPath, respPath, reqBuf,
                   hvars, now>>

\* close(resp_fd)
DaemonCloseResp(d) ==
    /\ dpc[d] = "close_resp"
    /\ dfd' = [dfd EXCEPT ![d] = NoFile]
    /\ respBuf' = [respBuf EXCEPT ![dfd[d]] =
                     IF RespWriters(dfd[d]) = {d} /\ RespReaders(dfd[d]) = {}
                     THEN <<>> ELSE @]
    /\ dpc' = [dpc EXCEPT ![d] = AfterResponse(d)]
    /\ request' = [request EXCEPT ![d] = <<>>]
    /\ response' = [response EXCEPT ![d] = <<>>]
    /\ UNCHANGED <<cvars, stopping, state, query_count,
                   start_time, pidPath, pidData, reqPath, respPath, reqBuf,
                   hvars, now>>

\* Cleanup: unlink(FIFO_REQUEST); unlink(FIFO_RESPONSE); unlink(PID_FILE);
\* daemon_main returns and main returns 0: the process and its memory are
\* gone.
DaemonCleanup(d) ==
    /\ dpc[d] = "cleanup"
    /\ reqPath' = NoFile
    /\ respPath' = NoFile
    /\ pidPath' = NoFile
    /\ dpc' = [dpc EXCEPT ![d] = "exited"]
    /\ state' = [state EXCEPT ![d] = <<>>]
    /\ query_count' = [query_count EXCEPT ![d] = 0]
    /\ start_time' = [start_time EXCEPT ![d] = 0]
    /\ UNCHANGED <<cvars, dfd, request, response, stopping, pidData, reqBuf,
                   respBuf, hvars, now>>

DaemonStep(d) ==
    \/ DaemonOpenPidFile(d)
    \/ DaemonWritePid(d)
    \/ DaemonUnlinkFifos(d)
    \/ DaemonMkfifos(d)
    \/ DaemonOpenReq(d)
    \/ DaemonReadReq(d)
    \/ DaemonCloseReq(d)
    \/ DaemonProcess(d)
    \/ DaemonOpenResp(d)
    \/ DaemonWriteResp(d)
    \/ DaemonCloseResp(d)
    \/ DaemonCleanup(d)

(***************************************************************************)
(* main() in client mode and send_request(), one action per system call.   *)
(***************************************************************************)
\* Where main goes when send_request has returned: it prints the response
\* and leaves its loop after SHUTDOWN.
AfterReturn(c) == IF line[c] = SHUTDOWN THEN "done" ELSE "prompt"

\* if (!is_daemon_running()) { fork(); execl(argv[0], "--daemon") ... }: the
\* child becomes a daemon process; the parent sleeps and goes on to the
\* prompt, whatever the daemon has done by then.
ClientStart(c) ==
    /\ cpc[c] = "init"
    /\ \E running \in is_daemon_running :
         dpc' = IF running THEN dpc
                ELSE [dpc EXCEPT ![DaemonOf(c)] = "daemonize"]
    /\ cpc' = [cpc EXCEPT ![c] = "prompt"]
    /\ UNCHANGED <<line, result, ncmd, cfd, dfd, request, response, stopping,
                   state, query_count, start_time, fsvars, hvars, now>>

\* std::getline(std::cin, line) returned a non-empty line other than EXIT.
ClientEnter(c, ln) ==
    /\ cpc[c] = "prompt"
    /\ ncmd[c] < MaxCommands
    /\ line' = [line EXCEPT ![c] = ln]
    /\ ncmd' = [ncmd EXCEPT ![c] = @ + 1]
    /\ result' = [result EXCEPT ![c] = <<>>]
    /\ cpc' = [cpc EXCEPT ![c] = "open_req"]
    /\ UNCHANGED <<cfd, dvars, fsvars, hvars, now>>

\* EXIT, exit or the end of the input.
ClientExit(c) ==
    /\ cpc[c] = "prompt"
    /\ cpc' = [cpc EXCEPT ![c] = "done"]
    /\ UNCHANGED <<line, result, ncmd, cfd, dvars, fsvars, hvars, now>>

\* open(FIFO_REQUEST, O_WRONLY): fails when the path does not exist; else
\* registers the client as a writer, releases the readers waiting in their
\* open, and returns once a reader has opened.
ClientOpenReq(c) ==
    /\ cpc[c] = "open_req"
    /\ IF reqPath = NoFile
       THEN /\ result' = [result EXCEPT ![c] = ERR_CONNECT]
            /\ cpc' = [cpc EXCEPT ![c] = AfterReturn(c)]
            /\ UNCHANGED <<cfd, dpc>>
       ELSE /\ cfd' = [cfd EXCEPT ![c] = reqPath]
            /\ cpc' = [cpc EXCEPT ![c] =
                         IF ReqReaders(reqPath) # {} THEN "write_req"
                         ELSE "wait_req"]
            /\ dpc' = [d \in Daemons |->
                         IF dpc[d] = "wait_req" /\ dfd[d] = reqPath
                         THEN "read_req" ELSE dpc[d]]
            /\ UNCHANGED result
    /\ UNCHANGED <<line, ncmd, dfd, request, response, stopping, state,
                   query_count, start_time, fsvars, hvars, now>>

\* write(req_fd, request.c_str(), request.length()): with no reader left the
\* write raises SIGPIPE, which ends the process.
ClientWriteReq(c) ==
    /\ cpc[c] = "write_req"
    /\ IF ReqReaders(cfd[c]) = {}
       THEN /\ cpc' = [cpc EXCEPT ![c] = "killed"]
            /\ cfd' = [cfd EXCEPT ![c] = NoFile]
            /\ reqBuf' = [reqBuf EXCEPT ![cfd[c]] =
                            IF ReqWriters(cfd[c]) = {c} THEN <<>> ELSE @]
       ELSE /\ cpc' = [cpc EXCEPT ![c] = "close_req"]
            /\ reqBuf' = [reqBuf EXCEPT ![cfd[c]] = @ \o line[c]]
            /\ UNCHANGED cfd
    /\ UNCHANGED <<line, result, ncmd, dvars, pidPath, pidData, reqPath,
                   respPath, respBuf, hvars, now>>

\* close(req_fd)
ClientCloseReq(c) ==
    /\ cpc[c] = "close_req"
    /\ cfd' = [cfd EXCEPT ![c] = NoFile]
    /\ reqBuf' = [reqBuf EXCEPT ![cfd[c]] =
                    IF ReqWriters(cfd[c]) = {c} /\ ReqReaders(cfd[c]) = {}
                    THEN <<>> ELSE @]
    /\ cpc' = [cpc EXCEPT ![c] = "open_resp"]
    /\ UNCHANGED <<line, result, ncmd, dvars, pidPath, pidData, reqPath,
                   respPath, respBuf, hvars, now>>

\* open(FIFO_RESPONSE, O_RDONLY)
ClientOpenResp(c) ==
    /\ cpc[c] = "open_resp"
    /\ IF respPath = NoFile
       THEN /\ result' = [result EXCEPT ![c] = ERR_READ]
            /\ cpc' = [cpc EXCEPT ![c] = AfterReturn(c)]
            /\ UNCHANGED <<cfd, dpc>>
       ELSE /\ cfd' = [cfd EXCEPT ![c] = respPath]
            /\ cpc' = [cpc EXCEPT ![c] =
                         IF RespWriters(respPath) # {} THEN "read_resp"
                         ELSE "wait_resp"]
            /\ dpc' = [d \in Daemons |->
                         IF dpc[d] = "wait_resp" /\ dfd[d] = respPath
                         THEN "write_resp" ELSE dpc[d]]
            /\ UNCHANGED result
    /\ UNCHANGED <<line, ncmd, dfd, request, response, stopping, state,
                   query_count, start_time, fsvars, hvars, now>>

\* What send_request returns for the bytes its read returned.
ReturnedText(bytes) == IF Len(bytes) > 0 THEN bytes ELSE ERR_NO_RESPONSE

\* read(resp_fd, buffer, sizeof(buffer) - 1): waits while the pipe is empty
\* and a writer has it open; returns 0 at end of file.
ClientReadResp(c) ==
    /\ cpc[c] = "read_resp"
    /\ respBuf[cfd[c]] # <<>> \/ RespWriters(cfd[c]) = {}
    /\ result' = [result EXCEPT ![c] = ReturnedText(ReadBytes(respBuf[cfd[c]]))]
    /\ respBuf' = [respBuf EXCEPT ![cfd[c]] = ReadRest(respBuf[cfd[c]])]
    /\ cpc' = [cpc EXCEPT ![c] = "close_resp"]
    /\ UNCHANGED <<line, ncmd, cfd, dvars, pidPath, pidData, reqPath, respPath,
                   reqBuf, hvars, now>>

\* close(resp_fd), and send_request returns.
ClientCloseResp(c) ==
    /\ cpc[c] = "close_resp"
    /\ cfd' = [cfd EXCEPT ![c] = NoFile]
    /\ respBuf' = [respBuf EXCEPT ![cfd[c]] =
                     IF RespReaders(cfd[c]) = {c} /\ RespWriters(cfd[c]) = {}
                     THEN <<>> ELSE @]
    /\ cpc' = [cpc EXCEPT ![c] = AfterReturn(c)]
    /\ UNCHANGED <<line, result, ncmd, dvars, pidPath, pidData, reqPath,
                   respPath, reqBuf, hvars, now>>

ClientStep(c) ==
    \/ ClientStart(c)
    \/ \E ln \in CmdLines : ClientEnter(c, ln)
    \/ ClientExit(c)
    \/ ClientOpenReq(c)
    \/ ClientWriteReq(c)
    \/ ClientCloseReq(c)
    \/ ClientOpenResp(c)
    \/ ClientReadResp(c)
    \/ ClientCloseResp(c)

(***************************************************************************)
(* The whole system: client and daemon processes interleaved at the level  *)
(* of their system calls.                                                  *)
(***************************************************************************)
Next ==
    \/ \E c \in Clients : ClientStep(c)
    \/ \E d \in Daemons : DaemonStep(d)

Spec == Init /\ [][Next]_vars

(***************************************************************************)
(* Reading a STATUS report, as a client does.                              *)
(***************************************************************************)
IsDigit(ch) == \E n \in 1..10 : Digits[n] = ch
DigitValue(ch) == (CHOOSE n \in 1..10 : Digits[n] = ch) - 1

\* The decimal number that starts at position pos of text, and the position
\* after it.
RECURSIVE ReadNat(_, _, _)
ReadNat(text, pos, acc) ==
    IF pos <= Len(text) /\ IsDigit(text[pos])
    THEN ReadNat(text, pos + 1, acc * 10 + DigitValue(text[pos]))
    ELSE [value |-> acc, next |-> pos]

\* The number after "Queries: " in a STATUS report.
ReportedQueries(text) ==
    ReadNat(text, Len(ST_RUNNING) + Len(ST_QUERIES) + 1, 0).value

\* The number after "Uptime: " in a STATUS report.
ReportedUptime(text) ==
    LET q == ReadNat(text, Len(ST_RUNNING) + Len(ST_QUERIES) + 1, 0)
    IN  ReadNat(text, q.next + 1 + Len(ST_UPTIME), 0).value

\* The number after "State entries: " in a STATUS report.
ReportedEntries(text) ==
    LET q == ReadNat(text, Len(ST_RUNNING) + Len(ST_QUERIES) + 1, 0)
        u == ReadNat(text, q.next + 1 + Len(ST_UPTIME), 0)
    IN  ReadNat(text, u.next + Len(ST_SECONDS) + Len(ST_ENTRIES), 0).value

(***************************************************************************)
(* Serial transactions: send_request run from its first line to its return *)
(* against the daemon that waits in open(FIFO_REQUEST), no other process   *)
(* taking a step in between. Each action below is that schedule of the     *)
(* system calls modelled above, composed of the same operators.            *)
(***************************************************************************)
\* The daemon blocked in open(FIFO_REQUEST, O_RDONLY) on the FIFO the path
\* names, if there is one.
Serving == {d \in Daemons : dpc[d] = "wait_req" /\ dfd[d] = reqPath}

\* main up to the prompt: the gate, and when it says "not running" the fork
\* and the daemon's daemonize() and initialisation up to its first open.
SerialStart(c) ==
    /\ cpc[c] = "init"
    /\ cpc' = [cpc EXCEPT ![c] = "prompt"]
    /\ \E running \in is_daemon_running :
         IF running
         THEN UNCHANGED <<dvars, fsvars>>
         ELSE LET d == DaemonOf(c)
                  i == IF pidPath = NoFile THEN d ELSE pidPath
              IN  /\ pidPath' = i
                  /\ pidData' = [pidData EXCEPT ![i] = d]
                  /\ reqPath' = d
                  /\ respPath' = d
                  /\ reqBuf' = [reqBuf EXCEPT ![d] = <<>>]
                  /\ respBuf' = [respBuf EXCEPT ![d] = <<>>]
                  /\ state' = [state EXCEPT ![d] = SeedState]
                  /\ query_count' = [query_count EXCEPT ![d] = 0]
                  /\ start_time' = [start_time EXCEPT ![d] = now]
                  /\ dpc' = [dpc EXCEPT ![d] = "wait_req"]
                  /\ dfd' = [dfd EXCEPT ![d] = d]
                  /\ UNCHANGED <<request, response, stopping>>
    /\ UNCHANGED <<line, result, ncmd, cfd, hvars, now>>

\* The value a SET line of SerialLines asks to store under key "a".
SetValueOf(ln) == IF ln = SET_a_1 THEN <<"1">> ELSE <<"2">>

\* The history of serial transactions after client c's line ln was answered
\* with text by daemon d (0: by no daemon).
Record(c, ln, text, d) ==
    /\ prevReq' = IF last = None THEN <<>> ELSE last.req
    /\ last' = [client |-> c, req |-> ln, resp |-> text, daemon |-> d]
    /\ IF ln = STATUS /\ d # 0
       THEN /\ prevStatus' = lastStatus
            /\ lastStatus' = [daemon |-> d,
                              queries |-> ReportedQueries(text),
                              uptime |-> ReportedUptime(text),
                              entries |-> ReportedEntries(text),
                              afterSet |-> lastSet # None /\ lastSet.daemon = d]
       ELSE UNCHANGED <<prevStatus, lastStatus>>
    /\ IF ln \in {SET_a_1, SET_a_2} /\ d # 0
       THEN lastSet' = [daemon |-> d, client |-> c, value |-> SetValueOf(ln),
                        before |-> IF lastSet # None /\ lastSet.daemon = d
                                   THEN lastSet.value ELSE <<>>]
       ELSE UNCHANGED lastSet

\* One line entered at the prompt and send_request(line) run to its return;
\* limit bounds the lines all clients enter.
SerialTransact(c, ln, limit) ==
    /\ cpc[c] = "prompt"
    /\ ncmd["c1"] + ncmd["c2"] < limit
    /\ line' = [line EXCEPT ![c] = ln]
    /\ ncmd' = [ncmd EXCEPT ![c] = @ + 1]
    /\ IF reqPath = NoFile
       THEN \* open(FIFO_REQUEST, O_WRONLY) fails
            /\ result' = [result EXCEPT ![c] = ERR_CONNECT]
            /\ cpc' = [cpc EXCEPT ![c] = IF ln = SHUTDOWN THEN "done" ELSE "prompt"]
            /\ Record(c, ln, ERR_CONNECT, 0)
            /\ UNCHANGED <<cfd, dvars, fsvars>>
       ELSE IF Serving = {}
       THEN \* nobody will ever open the FIFO for reading: the open blocks
            /\ cpc' = [cpc EXCEPT ![c] = "wait_req"]
            /\ cfd' = [cfd EXCEPT ![c] = reqPath]
            /\ UNCHANGED <<result, dvars, fsvars, hvars>>
       ELSE LET d == CHOOSE x \in Serving : TRUE
                out == ProcessRequest(c_string(ReadBytes(ln)), state[d],
                                      query_count[d],
                                      UptimeSeconds(start_time[d], now))
                text == ReturnedText(ReadBytes(out.response))
            IN  IF out.crash
                THEN \* the daemon is gone before it opens FIFO_RESPONSE: the
                     \* client's open of it blocks
                     /\ dpc' = [dpc EXCEPT ![d] = "aborted"]
                     /\ dfd' = [dfd EXCEPT ![d] = NoFile]
                     /\ cpc' = [cpc EXCEPT ![c] = "wait_resp"]
                     /\ cfd' = [cfd EXCEPT ![c] = respPath]
                     /\ UNCHANGED <<result, request, response, stopping, state,
                                    query_count, start_time, fsvars, hvars>>
                ELSE /\ result' = [result EXCEPT ![c] = text]
                     /\ cpc' = [cpc EXCEPT ![c] =
                                  IF ln = SHUTDOWN THEN "done" ELSE "prompt"]
                     /\ Record(c, ln, text, d)
                     /\ stopping' = [stopping EXCEPT ![d] = out.stop]
                     /\ IF out.stop
                        THEN \* the daemon's cleanup and exit
                             /\ dpc' = [dpc EXCEPT ![d] = "exited"]
                             /\ dfd' = [dfd EXCEPT ![d] = NoFile]
                             /\ state' = [state EXCEPT ![d] = <<>>]
                             /\ query_count' = [query_count EXCEPT ![d] = 0]
                             /\ start_time' = [start_time EXCEPT ![d] = 0]
                             /\ reqPath' = NoFile
                             /\ respPath' = NoFile
                             /\ pidPath' = NoFile
                             /\ UNCHANGED <<pidData, reqBuf, respBuf>>
                        ELSE \* the daemon is back in open(FIFO_REQUEST)
                             /\ state' = [state EXCEPT ![d] = out.state]
                             /\ query_count' =
                                  [query_count EXCEPT ![d] = out.query_count]
                             /\ UNCHANGED <<dpc, dfd, start_time, fsvars>>
                     /\ UNCHANGED <<cfd, request, response>>
    /\ UNCHANGED now

\* The steady clock advances.
Tick ==
    /\ now < MaxClock
    /\ now' = now + 1
    /\ UNCHANGED <<cvars, dvars, fsvars, hvars>>

\* Clients of one store, taking turns: lines of SerialLines.
NextSerial ==
    \/ \E c \in Clients : SerialStart(c)
    \/ \E c \in Clients, ln \in SerialLines : SerialTransact(c, ln, MaxSerial)
    \/ \E c \in Clients : ClientExit(c)
    \/ Tick

SpecSerial == Init /\ [][NextSerial]_vars

\* The argument texts of generated lines: every text over ArgChars of at most
\* n characters.
Texts(n) == UNION {[1..m -> ArgChars] : m \in 0..n}
\* What follows "SET ": up to MaxArgLen characters.
ArgStrings == Texts(MaxArgLen)
\* What follows "GET ": as long as the key of a line "SET <key> <value>" of
\* ArgStrings can be.
KeyStrings == Texts(MaxArgLen - 2)

\* One client and every line "SET <text>" and "GET <text>", besides STATUS,
\* SHUTDOWN, HELP and the SET that ends in a line feed.
ParseLines ==
    {STATUS, SHUTDOWN, HELP, SET_a_NL} \cup {SET_ \o a : a \in ArgStrings}
                       \cup {GET_ \o a : a \in KeyStrings}

NextParse ==
    \/ SerialStart("c1")
    \/ \E ln \in ParseLines : SerialTransact("c1", ln, MaxParse)
    \/ ClientExit("c1")

SpecParse == Init /\ [][NextParse]_vars

(***************************************************************************)
(* Clients that go away in the middle of send_request, and the processes   *)
(* of one daemon at a time, interleaved at the level of their system calls *)
(* under a fair scheduler.                                                 *)
(***************************************************************************)
\* The client process ends (a signal, the terminal closed) while it holds the
\* request FIFO open and has written nothing, or after it has written and
\* closed it and before it opens the response FIFO. Its descriptor is closed
\* by the kernel.
ClientAbandon(c) ==
    /\ cpc[c] \in {"write_req", "open_resp"}
    /\ cpc' = [cpc EXCEPT ![c] = "abandoned"]
    /\ cfd' = [cfd EXCEPT ![c] = NoFile]
    /\ IF cpc[c] = "write_req"
       THEN reqBuf' = [reqBuf EXCEPT ![cfd[c]] =
                         IF ReqWriters(cfd[c]) = {c} /\ ReqReaders(cfd[c]) = {}
                         THEN <<>> ELSE @]
       ELSE UNCHANGED reqBuf
    /\ UNCHANGED <<line, result, ncmd, dvars, pidPath, pidData, reqPath,
                   respPath, respBuf, hvars, now>>

\* The system calls of send_request.
ClientCallStep(c) ==
    \/ ClientOpenReq(c)
    \/ ClientWriteReq(c)
    \/ ClientCloseReq(c)
    \/ ClientOpenResp(c)
    \/ ClientReadResp(c)
    \/ ClientCloseResp(c)

\* The system calls of daemon_main's loop and cleanup.
DaemonCallStep(d) ==
    \/ DaemonOpenReq(d)
    \/ DaemonReadReq(d)
    \/ DaemonCloseReq(d)
    \/ DaemonOpenResp(d)
    \/ DaemonWriteResp(d)
    \/ DaemonCloseResp(d)
    \/ DaemonCleanup(d)

\* A client's start brings its daemon up to the first open of the request
\* FIFO in one step (SerialStart, below), so that one daemon runs at a time.
NextFair ==
    \/ \E c \in Clients : SerialStart(c)
    \/ \E c \in Clients, ln \in CmdLines : ClientEnter(c, ln)
    \/ \E c \in Clients : ClientExit(c)
    \/ \E c \in Clients : ClientCallStep(c)
    \/ \E c \in Clients : ClientAbandon(c)
    \/ \E d \in Daemons : DaemonCallStep(d)
    \/ \E d \in Daemons : DaemonProcess(d)

\* A process that can run is run: no system call that can return waits for
\* ever, and the daemon does not stay in front of the command chain, which
\* it can always enter. What a user types, and whether a client goes away,
\* is not forced.
SpecFair ==
    /\ Init
    /\ [][NextFair]_vars
    /\ \A c \in Clients : WF_vars(ClientCallStep(c))
    /\ \A d \in Daemons : WF_vars(DaemonCallStep(d))
    /\ \A d \in Daemons : []<>(dpc[d] # "process")

(***************************************************************************)
(* C1. Round trip of SET and GET.                                          *)
(***************************************************************************)
HasSpace(t) == \E i \in 1..Len(t) : IsSpace(t[i])

\* The latest two serial transactions were "SET k v" and then "GET k", both
\* answered by the same daemon.
SetThenGet(k, v) ==
    /\ last # None
    /\ last.daemon # 0
    /\ prevReq = SET_ \o k \o <<" ">> \o v
    /\ last.req = GET_ \o k

\* Every way to read the text after "SET " as k, one space, v with k and v
\* not empty.
Splits(arg) ==
    {p \in [k : {SubSeq(arg, 1, i - 1) : i \in 1..Len(arg)},
            v : {SubSeq(arg, i + 1, Len(arg)) : i \in 1..Len(arg)}] :
        /\ p.k # <<>>
        /\ p.v # <<>>
        /\ arg = p.k \o <<" ">> \o p.v}

\* C1 as claimed: for all non-empty k and v, with or without spaces in them,
\* send_request("SET " + k + " " + v) immediately followed by
\* send_request("GET " + k) returns "VALUE: " followed by v.
C1_RoundTripAnyKey ==
    \A p \in Splits(substr(prevReq, 4)) :
        SetThenGet(p.k, p.v) => last.resp = VALUE_ \o p.v

\* C1 (amended): the same for keys without white space; the value may contain,
\* start with or end with spaces.
C1_RoundTrip ==
    \A p \in Splits(substr(prevReq, 4)) :
        (SetThenGet(p.k, p.v) /\ ~HasSpace(p.k)) => last.resp = VALUE_ \o p.v

\* C1 witness: "SET a  a" (the value " a" starts with a space) and then
\* "GET a", which returned "VALUE:  a".
C1_Witness ==
    /\ SetThenGet(<<"a">>, <<" ", "a">>)
    /\ last.resp = VALUE_ \o <<" ", "a">>

(***************************************************************************)
(* C2. One transaction in flight at a time.                                *)
(***************************************************************************)
\* A client's transaction is between the return of its open of the request
\* FIFO and the return of its read of the response.
InFlight(c) ==
    cpc[c] \in {"write_req", "close_req", "open_resp", "wait_resp", "read_resp"}

\* At most one daemon process was ever created.
OneDaemonEver == Cardinality({d \in Daemons : dpc[d] # "none"}) <= 1

\* C2 as claimed: against one daemon, no client has the request FIFO open or
\* written while another client's transaction is in flight, so no two
\* transactions are in flight at once.
C2_OneInFlight ==
    OneDaemonEver =>
        \A c1 \in Clients, c2 \in Clients :
            c1 # c2 => ~(InFlight(c1) /\ InFlight(c2))

(***************************************************************************)
(* C3. Shutdown finality.                                                  *)
(***************************************************************************)
\* Client c's send_request("SHUTDOWN") has returned the acknowledgement.
ShutdownAcknowledged(c) ==
    /\ cpc[c] = "done"
    /\ line[c] = SHUTDOWN
    /\ result[c] = SHUTTING_DOWN

\* C3 as claimed: once send_request("SHUTDOWN") has returned the
\* acknowledgement, is_daemon_running() is false and neither FIFO nor the PID
\* file exists (stated where one daemon was ever created).
C3_ShutdownFinality ==
    \A c \in Clients :
        (OneDaemonEver /\ ShutdownAcknowledged(c)) =>
            /\ is_daemon_running = {FALSE}
            /\ reqPath = NoFile
            /\ respPath = NoFile
            /\ pidPath = NoFile

(***************************************************************************)
(* C4. Single active instance.                                             *)
(***************************************************************************)
\* C4 as claimed: a client that starts while a daemon process exists forks no
\* other, so no two daemon processes exist at the same time.
C4_SingleInstance ==
    Cardinality({d \in Daemons : ProcessExists(d)}) <= 1

(***************************************************************************)
(* C5, C6. The liveness check.                                             *)
(***************************************************************************)
\* The PID file exists and holds the identifier of a process that exists.
MarkerLive ==
    IF pidPath = NoFile THEN FALSE
    ELSE IF pidData[pidPath] = EmptyFile THEN FALSE
    ELSE ProcessExists(pidData[pidPath])

\* C5 as claimed: is_daemon_running() returns true if and only if the PID file
\* exists and the process whose identifier it holds exists; its result is a
\* function of the files and the process table.
C5_LivenessIff == is_daemon_running = {MarkerLive}

\* C6 as claimed: with a PID file that exists and holds no identifier (created
\* by the daemon and not yet written), is_daemon_running() returns false.
C6_EmptyPidFileNotRunning ==
    (pidPath # NoFile /\ pidData[pidPath] = EmptyFile) =>
        is_daemon_running = {FALSE}

(***************************************************************************)
(* C7. Last write wins, across clients.                                    *)
(***************************************************************************)
\* C7: within one daemon lifetime, GET a returns the value of the latest SET
\* on a, whichever clients issued the SETs and the GET.
C7_LastWriteWins ==
    (/\ last # None
     /\ last.req = GET_a
     /\ lastSet # None
     /\ lastSet.daemon = last.daemon) => last.resp = VALUE_ \o lastSet.value

\* C7 witness: SET a 1 and then SET a 2 by one client, GET a by the other,
\* which returned "VALUE: 2".
C7_Witness ==
    /\ last # None
    /\ last.req = GET_a
    /\ last.resp = VALUE_ \o <<"2">>
    /\ lastSet # None
    /\ lastSet.daemon = last.daemon
    /\ lastSet.value = <<"2">>
    /\ lastSet.before = <<"1">>
    /\ lastSet.client # last.client

(***************************************************************************)
(* C8. GET of a missing key.                                               *)
(***************************************************************************)
\* Client c1's serial transaction of a line that starts with verb happens in
\* this step, served by daemon d.
Transacts(verb, d) ==
    /\ Serving = {d}
    /\ cpc["c1"] = "prompt"
    /\ ncmd'["c1"] = ncmd["c1"] + 1
    /\ prefix(line'["c1"], Len(verb)) = verb
\* What follows the four characters of the verb in that line.
EnteredArg == substr(line'["c1"], 4)

\* C8: a GET leaves the store as it is, and a GET of a key that is not in the
\* store returns "ERROR: Key not found".
C8_GetMissingKey ==
    [][\A d \in Daemons :
          Transacts(GET_, d) =>
              /\ state'[d] = state[d]
              /\ ((\A i \in 1..Len(EnteredArg) : EnteredArg[i] \notin TrimChars)
                     /\ EnteredArg \notin DOMAIN state[d])
                    => result'["c1"] = ERR_NOT_FOUND]_vars

\* C8 witness: "GET a" returned the error and the store holds its two seeded
\* entries only.
C8_Witness ==
    /\ last # None
    /\ last.req = GET_ \o <<"a">>
    /\ last.resp = ERR_NOT_FOUND
    /\ last.daemon # 0
    /\ DOMAIN state[last.daemon] = {KEY_version, KEY_status}

(***************************************************************************)
(* C9. Malformed SET.                                                      *)
(***************************************************************************)
\* The text after "SET " holds no key (nothing but white space) ...
NoKey(a) == \A i \in 1..Len(a) : IsSpace(a[i])
\* ... or a key and nothing after it.
KeyOnly(a) ==
    \E i \in 1..Len(a) :
        /\ \A j \in 1..(i - 1) : IsSpace(a[j])
        /\ \A j \in i..Len(a) : ~IsSpace(a[j])

\* C9: "SET " with no key, or with a key and nothing after it, returns
\* "ERROR: Invalid SET command" and leaves the store as it is.
C9_MalformedSet ==
    [][\A d \in Daemons :
          (Transacts(SET_, d) /\ (NoKey(EnteredArg) \/ KeyOnly(EnteredArg))) =>
              /\ result'["c1"] = ERR_INVALID_SET
              /\ state'[d] = state[d]]_vars

\* C9 witness: "SET aa" returned the error and no entry aa exists.
C9_Witness ==
    /\ last # None
    /\ last.req = SET_ \o <<"a", "a">>
    /\ last.resp = ERR_INVALID_SET
    /\ last.daemon # 0
    /\ <<"a", "a">> \notin DOMAIN state[last.daemon]

(***************************************************************************)
(* C10. STATUS monotonicity.                                               *)
(***************************************************************************)
\* The latest STATUS report counts one query more than the one before it and
\* reports no smaller uptime.
StatusAdvanced ==
    /\ lastStatus.queries = prevStatus.queries + 1
    /\ lastStatus.uptime >= prevStatus.uptime

\* C10 as claimed: of any two consecutive STATUS transactions the second
\* reports a query counter one greater and an uptime not smaller.
C10_StatusMonotoneAnyDaemon ==
    (prevStatus # None /\ lastStatus # None) => StatusAdvanced

\* C10 (amended): the same for two consecutive STATUS transactions that the
\* same daemon process answered.
C10_StatusMonotone ==
    (/\ prevStatus # None
     /\ lastStatus # None
     /\ prevStatus.daemon = lastStatus.daemon) => StatusAdvanced

\* C10 witness: two STATUS transactions of one daemon with a GET between
\* them; the second reports Queries: 2 and a greater uptime.
C10_Witness ==
    /\ prevStatus # None
    /\ lastStatus # None
    /\ prevStatus.daemon = lastStatus.daemon
    /\ last.req = STATUS
    /\ prevReq = GET_a
    /\ lastStatus.queries = 2
    /\ lastStatus.uptime > prevStatus.uptime

(***************************************************************************)
(* C11. No request is fatal to the daemon.                                 *)
(***************************************************************************)
\* C11 as claimed: whatever non-empty line other than SHUTDOWN a client
\* sends to the serving daemon, the client gets a response to that line and
\* the daemon is back in its open of the request FIFO.
C11_NoFatalRequest ==
    [][\A d \in Daemons :
          (/\ Serving = {d}
           /\ cpc["c1"] = "prompt"
           /\ ncmd'["c1"] = ncmd["c1"] + 1
           /\ line'["c1"] # SHUTDOWN) =>
              /\ Serving' = {d}
              /\ cpc'["c1"] = "prompt"
              /\ last' # None
              /\ last'.req = line'["c1"]
              /\ last'.daemon = d
              /\ Len(result'["c1"]) > 0]_vars

(***************************************************************************)
(* C12. send_request without a daemon.                                     *)
(***************************************************************************)
\* No daemon process exists.
NoDaemonAlive == \A d \in Daemons : ~ProcessExists(d)

\* C12 as claimed: a send_request made while no daemon process exists
\* returns "ERROR: Cannot connect to daemon" at once; it does not block in
\* its open of the request FIFO.
C12_NoBlockWithoutDaemon ==
    [][\A c \in Clients :
          (/\ NoDaemonAlive
           /\ cpc[c] = "prompt"
           /\ ncmd'[c] = ncmd[c] + 1) =>
              /\ result'[c] = ERR_CONNECT
              /\ cpc'[c] \in {"prompt", "done"}]_vars

(***************************************************************************)
(* C13. Exactly one reply per command.                                     *)
(***************************************************************************)
\* send_request has returned to main with a payload.
Returned(c) == cpc[c] \in {"prompt", "done"} /\ Len(result[c]) > 0

\* Some client went away in the middle of its send_request.
SomeoneAbandoned == \E c \in Clients : cpc[c] = "abandoned"

\* C13 as claimed: a command that a client issues while a daemon is serving
\* eventually returns a payload to that client, however many clients are
\* active (behaviours in which a client goes away are left out of account).
C13_OneReplyPerCommand ==
    \A c \in Clients :
        (cpc[c] = "open_req" /\ Serving # {}) ~>
            (Returned(c) \/ SomeoneAbandoned)

(***************************************************************************)
(* C14. The way out of Serving.                                            *)
(***************************************************************************)
\* The daemon is in the loop of daemon_main.
InLoop(d) ==
    dpc[d] \in {"open_req", "wait_req", "read_req", "close_req", "process",
                "open_resp", "wait_resp", "write_resp", "close_resp"}

\* C14 as claimed: a daemon leaves its loop only with the request "SHUTDOWN"
\* in hand and only from the close that follows its write of the
\* acknowledgement to the response FIFO; it reads no request afterwards.
C14_LeavesOnlyAfterAck ==
    [][\A d \in Daemons :
          /\ (InLoop(d) /\ ~InLoop(d)') =>
                /\ c_string(request[d]) = SHUTDOWN
                /\ response[d] = SHUTTING_DOWN
                /\ dpc[d] = "close_resp"
                /\ dpc'[d] = "cleanup"
          /\ ~InLoop(d) => ~InLoop(d)' \/ dpc[d] \in {"none", "daemonize",
                                                       "write_pid", "unlink",
                                                       "mkfifo"}]_vars

(***************************************************************************)
(* C15. An abandoned transaction.                                          *)
(***************************************************************************)
\* The daemon has a response to send and waits in its open of the response
\* FIFO, which no process has open for reading.
ResponseUndeliverable(d) ==
    /\ dpc[d] = "wait_resp"
    /\ RespReaders(dfd[d]) = {}

\* C15 as claimed: when a client has gone away after writing its request,
\* the daemon drops the response and goes on (it does not stay in its open
\* of the response FIFO), and a client that calls send_request later is
\* answered.
C15_AbandonDoesNotStall ==
    /\ \A d \in Daemons :
          (SomeoneAbandoned /\ ResponseUndeliverable(d)) ~> (dpc[d] # "wait_resp")
    /\ \A c \in Clients :
          (SomeoneAbandoned /\ cpc[c] = "open_req"
                            /\ \E d \in Daemons : ResponseUndeliverable(d))
              ~> Returned(c)

(***************************************************************************)
(* C16. A read of no bytes.                                                *)
(***************************************************************************)
\* C16: when the daemon's read of the request FIFO returns no byte, the read
\* and the step that follows it write nothing to a response FIFO, compute no
\* response, leave the store and the query counter as they are, and take
\* the daemon back to its open of the request FIFO.
C16_EmptyReadNoOp ==
    [][\A d \in Daemons :
          /\ (dpc[d] = "read_req" /\ dpc'[d] = "close_req"
                                  /\ Len(request'[d]) = 0) =>
                /\ state' = state
                /\ query_count' = query_count
                /\ response' = response
                /\ respBuf' = respBuf
          /\ (dpc[d] = "close_req" /\ Len(request[d]) = 0
                                   /\ dpc'[d] # "close_req") =>
                /\ dpc'[d] = "open_req"
                /\ state' = state
                /\ query_count' = query_count
                /\ response' = response
                /\ respBuf' = respBuf]_vars

\* C16 witness: a client opened the request FIFO and went away without
\* writing; the daemon's read has returned no byte.
C16_Witness ==
    \E d \in Daemons :
        /\ dpc[d] = "close_req"
        /\ Len(request[d]) = 0
        /\ SomeoneAbandoned

(***************************************************************************)
(* C17. The value a SET stores.                                            *)
(***************************************************************************)
\* The ways to read the text after "SET " as key and rest: key a non-empty
\* token without white space that starts the text, rest what follows the
\* token (not empty, so it starts with the white space that ends the token).
KeyAndRest(arg) ==
    {p \in [key : {SubSeq(arg, 1, i) : i \in 1..Len(arg)},
            rest : {SubSeq(arg, i + 1, Len(arg)) : i \in 1..Len(arg)}] :
        /\ arg = p.key \o p.rest
        /\ p.key # <<>>
        /\ ~HasSpace(p.key)
        /\ p.rest # <<>>
        /\ IsSpace(p.rest[1])}

\* C17 as claimed: "SET " + key + rest stores rest without its first
\* character under key and answers "OK: Set " + key + " = " + that value.
C17_SetStoresRest ==
    [][\A d \in Daemons :
          Transacts(SET_, d) =>
              \A p \in KeyAndRest(EnteredArg) :
                  /\ p.key \in DOMAIN state'[d]
                  /\ state'[d][p.key] = substr(p.rest, 1)
                  /\ result'["c1"] = OK_SET \o p.key \o EQ_ \o substr(p.rest, 1)]_vars

(***************************************************************************)
(* C18. Nothing persists across daemons.                                   *)
(***************************************************************************)
\* The latest GET a was answered by a daemon that served no SET on a.
GetBeforeAnySet ==
    /\ last # None
    /\ last.daemon # 0
    /\ last.req = GET_a
    /\ lastSet = None \/ lastSet.daemon # last.daemon

\* The latest STATUS was the first one its daemon answered, and the daemon
\* had served no SET before it.
FirstStatusBeforeAnySet ==
    /\ lastStatus # None
    /\ prevStatus = None \/ prevStatus.daemon # lastStatus.daemon
    /\ ~lastStatus.afterSet

\* C18: every daemon starts to serve with the store {version -> 1.0,
\* status -> running} and the counter 0, whatever earlier daemons processed:
\* a GET of a key set only by an earlier daemon returns the not-found error,
\* and the first STATUS reports Queries: 1 and State entries: 2.
C18_NoPersistence ==
    [][/\ \A d \in Daemons :
            (dpc[d] = "none" /\ dpc'[d] = "wait_req") =>
                /\ state'[d] = (KEY_version :> VAL_version)
                                   @@ (KEY_status :> VAL_status)
                /\ query_count'[d] = 0
       /\ GetBeforeAnySet' => last'.resp = ERR_NOT_FOUND
       /\ FirstStatusBeforeAnySet' =>
              /\ lastStatus'.queries = 1
              /\ lastStatus'.entries = 2]_vars

\* C18 witness: key a was set in the lifetime of one daemon, and GET a,
\* answered by the daemon started after it, returned the not-found error.
C18_Witness ==
    /\ GetBeforeAnySet
    /\ lastSet # None
    /\ last.resp = ERR_NOT_FOUND
    /\ state[last.daemon] = SeedState

(***************************************************************************)
(* C19. Response matching under concurrency.                               *)
(***************************************************************************)
\* The responses the command processor computes for the line ln, in a store
\* in which key a is absent or set by SET a 1.
ResponsesTo(ln) ==
    {ProcessRequest(ln, st, 0, 0).response :
        st \in {SeedState, StoreSet(SeedState, <<"a">>, <<"1">>)}}

\* What send_request returns without having read a response of the daemon.
ClientErrors == {ERR_CONNECT, ERR_READ, ERR_NO_RESPONSE}

\* C19 as claimed: against one daemon, whatever send_request returns to a
\* client is the response the daemon computes for that client's own line
\* (or an error send_request itself reports), and what the daemon reads as
\* one request is one client's line, never two lines in a row.
C19_ResponseMatching ==
    OneDaemonEver =>
        /\ \A c \in Clients :
               Returned(c) => result[c] \in ResponsesTo(line[c]) \cup ClientErrors
        /\ \A d \in Daemons : request[d] \in CmdLines \cup {<<>>}

(***************************************************************************)
(* C20. Artifact ownership.                                                *)
(***************************************************************************)
\* The PID file exists and holds d, and both FIFO paths name the FIFOs that
\* daemon d created.
OwnsArtifacts(d) ==
    /\ pidPath # NoFile
    /\ pidData[pidPath] = d
    /\ reqPath = d
    /\ respPath = d

\* C20 as claimed: while a daemon is inside its serving loop, the PID file
\* exists and holds its process identifier and both FIFO paths name the
\* FIFOs it created; no other process's startup or teardown removes or
\* replaces them.
C20_ArtifactOwnership ==
    \A d \in Daemons : InLoop(d) => OwnsArtifacts(d)

====
